---- MODULE Spec2Model ----
(***************************************************************************)
(* Model of src/lib/gpu-config.c (linux-driver-management): the GPU        *)
(* topology classifier ldm_gpu_config_analyze and the LdmGPUConfig query   *)
(* accessors.                                                              *)
(*                                                                         *)
(* A device is a record [id, vendor, boot]; id is the identity of the      *)
(* LdmDevice object (its address), so pointer equality is record equality. *)
(* The manager's device array holds the objects 1..n in discovery order.   *)
(* A GPU type is the set of the LdmGPUType bits that are set: | is \cup,   *)
(* & is \cap, and LDM_GPU_TYPE_SIMPLE is the empty mask.                   *)
(***************************************************************************)
EXTENDS FiniteSets, Integers, Sequences, TLC

\* Longest device array the manager returns.
MaxDevices == 3

\* ------------------------------------------------------------------------
\* External collaborators (ldm-enums.h, device.c, manager.c)

LDM_PCI_VENDOR_ID_INTEL == "INTEL"
LDM_PCI_VENDOR_ID_AMD == "AMD"
LDM_PCI_VENDOR_ID_NVIDIA == "NVIDIA"
VENDOR_OTHER == "OTHER"
\* What ldm_device_get_vendor_id answers for a NULL device: no vendor.
VENDOR_NONE == "NONE"

Vendors ==
  {LDM_PCI_VENDOR_ID_INTEL, LDM_PCI_VENDOR_ID_AMD, LDM_PCI_VENDOR_ID_NVIDIA, VENDOR_OTHER}

LDM_GPU_TYPE_SIMPLE == {}
LDM_GPU_TYPE_HYBRID == {"HYBRID"}
LDM_GPU_TYPE_OPTIMUS == {"OPTIMUS"}
LDM_GPU_TYPE_COMPOSITE == {"COMPOSITE"}
LDM_GPU_TYPE_SLI == {"SLI"}
LDM_GPU_TYPE_CROSSFIRE == {"CROSSFIRE"}

\* The NULL pointer (device or configuration).
NULL == [id |-> 0]

\* ldm_device_has_attribute(device, LDM_DEVICE_ATTRIBUTE_BOOT_VGA); a NULL
\* device fails the precondition check and answers FALSE.
ldm_device_has_attribute(device) ==
  IF device = NULL THEN FALSE ELSE device.boot

\* ldm_device_get_vendor_id(device); a NULL device answers "no vendor".
ldm_device_get_vendor_id(device) ==
  IF device = NULL THEN VENDOR_NONE ELSE device.vendor

\* ldm_manager_get_providers(manager, device): the resolver's answer is
\* determined by the device it is asked about.
ldm_manager_get_providers(device) ==
  [providers_for |-> device]

\* The device arrays ldm_manager_get_devices can return: objects 1..n,
\* any vendor, any boot_vga attribute.
DeviceSeqs ==
  UNION {
    {[i \in 1..n |-> [id |-> i, vendor |-> v[i], boot |-> b[i]]] :
        v \in [1..n -> Vendors], b \in [1..n -> BOOLEAN]} :
    n \in 0..MaxDevices}

Range(s) == {s[i] : i \in 1..Len(s)}

Min(S) == CHOOSE x \in S : \A y \in S : x <= y

Max(S) == CHOOSE x \in S : \A y \in S : x >= y

\* ------------------------------------------------------------------------
\* The configuration object

\* ldm_gpu_config_init on the zero-filled instance.
ldm_gpu_config_init ==
  [n_gpu |-> 0, gpu_type |-> LDM_GPU_TYPE_SIMPLE, primary |-> NULL, secondary |-> NULL]

\* Mutant: returns the last match of the scan, not the first.
M_search_boot_last(devs, vga_boot, not_like) ==
  LET hits == {i \in 1..Len(devs) :
                 /\ devs[i] # not_like
                 /\ ldm_device_has_attribute(devs[i]) = vga_boot}
  IN  IF hits = {} THEN NULL ELSE devs[Max(hits)]

ldm_gpu_config_search_boot(devs, vga_boot, not_like) ==
  LET hits == {i \in 1..Len(devs) :
                 /\ devs[i] # not_like
                 /\ ldm_device_has_attribute(devs[i]) = vga_boot}
  IN  IF hits = {} THEN NULL ELSE devs[Min(hits)]

\* Mutant: forgets that the primary must be the boot_vga device.
M_do_optimus_noboot(s, primary, secondary) ==
  IF ldm_device_has_attribute(secondary) THEN [ok |-> FALSE, self |-> s]
  ELSE IF ldm_device_get_vendor_id(primary) # LDM_PCI_VENDOR_ID_INTEL
    THEN [ok |-> FALSE, self |-> s]
  ELSE IF ldm_device_get_vendor_id(secondary) # LDM_PCI_VENDOR_ID_NVIDIA
    THEN [ok |-> FALSE, self |-> s]
  ELSE [ok |-> TRUE,
        self |-> [s EXCEPT !.gpu_type = LDM_GPU_TYPE_HYBRID \cup LDM_GPU_TYPE_OPTIMUS,
                           !.primary = primary,
                           !.secondary = secondary]]

\* Mutant: sets the OPTIMUS bit without the HYBRID bit.
M_do_optimus_bit(s, primary, secondary) ==
  IF ~ldm_device_has_attribute(primary) THEN [ok |-> FALSE, self |-> s]
  ELSE IF ldm_device_has_attribute(secondary) THEN [ok |-> FALSE, self |-> s]
  ELSE IF ldm_device_get_vendor_id(primary) # LDM_PCI_VENDOR_ID_INTEL
    THEN [ok |-> FALSE, self |-> s]
  ELSE IF ldm_device_get_vendor_id(secondary) # LDM_PCI_VENDOR_ID_NVIDIA
    THEN [ok |-> FALSE, self |-> s]
  ELSE [ok |-> TRUE,
        self |-> [s EXCEPT !.gpu_type = LDM_GPU_TYPE_OPTIMUS,
                           !.primary = primary,
                           !.secondary = secondary]]

ldm_gpu_config_do_optimus(s, primary, secondary) ==
  IF ~ldm_device_has_attribute(primary) THEN [ok |-> FALSE, self |-> s]
  ELSE IF ldm_device_has_attribute(secondary) THEN [ok |-> FALSE, self |-> s]
  ELSE IF ldm_device_get_vendor_id(primary) # LDM_PCI_VENDOR_ID_INTEL
    THEN [ok |-> FALSE, self |-> s]
  ELSE IF ldm_device_get_vendor_id(secondary) # LDM_PCI_VENDOR_ID_NVIDIA
    THEN [ok |-> FALSE, self |-> s]
  ELSE [ok |-> TRUE,
        self |-> [s EXCEPT !.gpu_type = LDM_GPU_TYPE_HYBRID \cup LDM_GPU_TYPE_OPTIMUS,
                           !.primary = primary,
                           !.secondary = secondary]]

\* Mutant: accepts only an Intel primary (no AMD APU).
M_do_amd_hybrid_intel(s, primary, secondary) ==
  IF ~ldm_device_has_attribute(primary) THEN [ok |-> FALSE, self |-> s]
  ELSE IF ldm_device_has_attribute(secondary) THEN [ok |-> FALSE, self |-> s]
  ELSE IF ldm_device_get_vendor_id(primary) # LDM_PCI_VENDOR_ID_INTEL
    THEN [ok |-> FALSE, self |-> s]
  ELSE IF ldm_device_get_vendor_id(secondary) # LDM_PCI_VENDOR_ID_AMD
    THEN [ok |-> FALSE, self |-> s]
  ELSE [ok |-> TRUE,
        self |-> [s EXCEPT !.gpu_type = LDM_GPU_TYPE_HYBRID,
                           !.primary = primary,
                           !.secondary = secondary]]

\* Mutant: forgets to store the secondary device.
M_do_amd_hybrid_nosec(s, primary, secondary) ==
  LET primary_vendor_id == ldm_device_get_vendor_id(primary) IN
  IF ~ldm_device_has_attribute(primary) THEN [ok |-> FALSE, self |-> s]
  ELSE IF ldm_device_has_attribute(secondary) THEN [ok |-> FALSE, self |-> s]
  ELSE IF /\ primary_vendor_id # LDM_PCI_VENDOR_ID_INTEL
          /\ primary_vendor_id # LDM_PCI_VENDOR_ID_AMD
    THEN [ok |-> FALSE, self |-> s]
  ELSE IF ldm_device_get_vendor_id(secondary) # LDM_PCI_VENDOR_ID_AMD
    THEN [ok |-> FALSE, self |-> s]
  ELSE [ok |-> TRUE,
        self |-> [s EXCEPT !.gpu_type = LDM_GPU_TYPE_HYBRID,
                           !.primary = primary]]

ldm_gpu_config_do_amd_hybrid(s, primary, secondary) ==
  LET primary_vendor_id == ldm_device_get_vendor_id(primary) IN
  IF ~ldm_device_has_attribute(primary) THEN [ok |-> FALSE, self |-> s]
  ELSE IF ldm_device_has_attribute(secondary) THEN [ok |-> FALSE, self |-> s]
  ELSE IF /\ primary_vendor_id # LDM_PCI_VENDOR_ID_INTEL
          /\ primary_vendor_id # LDM_PCI_VENDOR_ID_AMD
    THEN [ok |-> FALSE, self |-> s]
  ELSE IF ldm_device_get_vendor_id(secondary) # LDM_PCI_VENDOR_ID_AMD
    THEN [ok |-> FALSE, self |-> s]
  ELSE [ok |-> TRUE,
        self |-> [s EXCEPT !.gpu_type = LDM_GPU_TYPE_HYBRID,
                           !.primary = primary,
                           !.secondary = secondary]]

\* The composite switch of ldm_gpu_config_analyze and its fallback.
Composite(s, boot_vga, non_boot_vga) ==
  LET vendor_id == ldm_device_get_vendor_id(boot_vga) IN
  IF /\ vendor_id = ldm_device_get_vendor_id(non_boot_vga)
     /\ vendor_id = LDM_PCI_VENDOR_ID_AMD
    THEN [s EXCEPT !.gpu_type = LDM_GPU_TYPE_COMPOSITE \cup LDM_GPU_TYPE_CROSSFIRE]
  ELSE IF /\ vendor_id = ldm_device_get_vendor_id(non_boot_vga)
          /\ vendor_id = LDM_PCI_VENDOR_ID_NVIDIA
    THEN [s EXCEPT !.gpu_type = LDM_GPU_TYPE_COMPOSITE \cup LDM_GPU_TYPE_SLI]
  ELSE [s EXCEPT !.gpu_type = LDM_GPU_TYPE_SIMPLE]

\* Mutant: switches on the boot vendor without comparing it to the
\* non-boot vendor.
M_analyze_nocompare(s0, devs) ==
  LET s1 == [s0 EXCEPT !.n_gpu = Len(devs)] IN
  IF Len(devs) < 1 THEN s1
  ELSE
    LET s2 == [s1 EXCEPT !.primary = devs[1]] IN
    IF Len(devs) = 1 THEN [s2 EXCEPT !.gpu_type = LDM_GPU_TYPE_SIMPLE]
    ELSE
      LET found == ldm_gpu_config_search_boot(devs, TRUE, NULL)
          boot_vga == IF found = NULL THEN devs[1] ELSE found
          s3 == [s2 EXCEPT !.primary = boot_vga]
          non_boot_vga == ldm_gpu_config_search_boot(devs, FALSE, boot_vga)
          optimus == ldm_gpu_config_do_optimus(s3, boot_vga, non_boot_vga)
          amd == ldm_gpu_config_do_amd_hybrid(s3, boot_vga, non_boot_vga)
          vendor_id == ldm_device_get_vendor_id(boot_vga)
      IN  IF optimus.ok THEN optimus.self
          ELSE IF amd.ok THEN amd.self
          ELSE IF vendor_id = LDM_PCI_VENDOR_ID_AMD
            THEN [s3 EXCEPT !.gpu_type = LDM_GPU_TYPE_COMPOSITE \cup LDM_GPU_TYPE_CROSSFIRE]
          ELSE IF vendor_id = LDM_PCI_VENDOR_ID_NVIDIA
            THEN [s3 EXCEPT !.gpu_type = LDM_GPU_TYPE_COMPOSITE \cup LDM_GPU_TYPE_SLI]
          ELSE [s3 EXCEPT !.gpu_type = LDM_GPU_TYPE_SIMPLE]

\* Mutant: the "safety set" of primary is missing, so the single-device
\* path returns with primary unset.
M_analyze_nosafety(s0, devs) ==
  LET s1 == [s0 EXCEPT !.n_gpu = Len(devs)] IN
  IF Len(devs) < 1 THEN s1
  ELSE
    IF Len(devs) = 1 THEN [s1 EXCEPT !.gpu_type = LDM_GPU_TYPE_SIMPLE]
    ELSE
      LET found == ldm_gpu_config_search_boot(devs, TRUE, NULL)
          boot_vga == IF found = NULL THEN devs[1] ELSE found
          s3 == [s1 EXCEPT !.primary = boot_vga]
          non_boot_vga == ldm_gpu_config_search_boot(devs, FALSE, boot_vga)
          optimus == ldm_gpu_config_do_optimus(s3, boot_vga, non_boot_vga)
          amd == ldm_gpu_config_do_amd_hybrid(s3, boot_vga, non_boot_vga)
      IN  IF optimus.ok THEN optimus.self
          ELSE IF amd.ok THEN amd.self
          ELSE Composite(s3, boot_vga, non_boot_vga)

\* Mutant: the composite check runs before the AMD hybrid check.
M_analyze_order(s0, devs) ==
  LET s1 == [s0 EXCEPT !.n_gpu = Len(devs)] IN
  IF Len(devs) < 1 THEN s1
  ELSE
    LET s2 == [s1 EXCEPT !.primary = devs[1]] IN
    IF Len(devs) = 1 THEN [s2 EXCEPT !.gpu_type = LDM_GPU_TYPE_SIMPLE]
    ELSE
      LET found == ldm_gpu_config_search_boot(devs, TRUE, NULL)
          boot_vga == IF found = NULL THEN devs[1] ELSE found
          s3 == [s2 EXCEPT !.primary = boot_vga]
          non_boot_vga == ldm_gpu_config_search_boot(devs, FALSE, boot_vga)
          optimus == ldm_gpu_config_do_optimus(s3, boot_vga, non_boot_vga)
          amd == ldm_gpu_config_do_amd_hybrid(s3, boot_vga, non_boot_vga)
          comp == Composite(s3, boot_vga, non_boot_vga)
      IN  IF optimus.ok THEN optimus.self
          ELSE IF comp.gpu_type # LDM_GPU_TYPE_SIMPLE THEN comp
          ELSE IF amd.ok THEN amd.self
          ELSE comp

\* ldm_gpu_config_analyze: the configuration s0 after the analysis of the
\* device array devs.
ldm_gpu_config_analyze(s0, devs) ==
  LET s1 == [s0 EXCEPT !.n_gpu = Len(devs)] IN
  IF Len(devs) < 1 THEN s1
  ELSE
    LET s2 == [s1 EXCEPT !.primary = devs[1]] IN
    IF Len(devs) = 1 THEN [s2 EXCEPT !.gpu_type = LDM_GPU_TYPE_SIMPLE]
    ELSE
      LET found == ldm_gpu_config_search_boot(devs, TRUE, NULL)
          boot_vga == IF found = NULL THEN devs[1] ELSE found
          s3 == [s2 EXCEPT !.primary = boot_vga]
          non_boot_vga == ldm_gpu_config_search_boot(devs, FALSE, boot_vga)
          optimus == ldm_gpu_config_do_optimus(s3, boot_vga, non_boot_vga)
          amd == ldm_gpu_config_do_amd_hybrid(s3, boot_vga, non_boot_vga)
      IN  IF optimus.ok THEN optimus.self
          ELSE IF amd.ok THEN amd.self
          ELSE Composite(s3, boot_vga, non_boot_vga)

\* ------------------------------------------------------------------------
\* Accessors.  h is the handle passed ("NULL" or "self"), s the object a
\* valid handle points to.  An accessor answers [val, reads, ub]: the value
\* returned, the fields of *self it read, and whether it dereferenced NULL.

Handles == {"NULL", "self"}

Answer(v, r) == [val |-> v, reads |-> r, ub |-> FALSE]

ldm_gpu_config_count(h, s) ==
  IF h = "NULL" THEN Answer(0, {}) ELSE Answer(s.n_gpu, {"n_gpu"})

ldm_gpu_config_get_gpu_type(h, s) ==
  IF h = "NULL" THEN Answer(LDM_GPU_TYPE_SIMPLE, {}) ELSE Answer(s.gpu_type, {"gpu_type"})

ldm_gpu_config_has_type(h, s, mask) ==
  IF h = "NULL" THEN Answer(FALSE, {})
  ELSE Answer((s.gpu_type \cap mask) = mask, {"gpu_type"})

ldm_gpu_config_get_primary_device(h, s) ==
  IF h = "NULL" THEN Answer(NULL, {}) ELSE Answer(s.primary, {"primary"})

ldm_gpu_config_get_secondary_device(h, s) ==
  IF h = "NULL" THEN Answer(NULL, {}) ELSE Answer(s.secondary, {"secondary"})

\* Mutant: tests the OPTIMUS bit instead of the HYBRID bit.
M_get_detection_device_optimus(h, s) ==
  LET t == ldm_gpu_config_has_type(h, s, LDM_GPU_TYPE_OPTIMUS)
      field == IF t.val THEN "secondary" ELSE "primary"
  IN  IF h = "NULL"
        THEN [val |-> NULL, reads |-> t.reads \cup {field}, ub |-> TRUE]
        ELSE Answer(s[field], t.reads \cup {field})

\* No guard of its own: after has_type, self->secondary or self->primary is
\* read whatever self is.
ldm_gpu_config_get_detection_device(h, s) ==
  LET t == ldm_gpu_config_has_type(h, s, LDM_GPU_TYPE_HYBRID)
      field == IF t.val THEN "secondary" ELSE "primary"
  IN  IF h = "NULL"
        THEN [val |-> NULL, reads |-> t.reads \cup {field}, ub |-> TRUE]
        ELSE Answer(s[field], t.reads \cup {field})

ldm_gpu_config_get_providers(h, s) ==
  IF h = "NULL" THEN Answer(NULL, {})
  ELSE LET d == ldm_gpu_config_get_detection_device(h, s)
       IN  Answer(ldm_manager_get_providers(d.val), d.reads \cup {"manager"})

\* The masks has_type is asked about.
Masks ==
  {LDM_GPU_TYPE_SIMPLE, LDM_GPU_TYPE_HYBRID, LDM_GPU_TYPE_OPTIMUS, LDM_GPU_TYPE_COMPOSITE,
   LDM_GPU_TYPE_SLI, LDM_GPU_TYPE_CROSSFIRE,
   LDM_GPU_TYPE_HYBRID \cup LDM_GPU_TYPE_OPTIMUS,
   LDM_GPU_TYPE_COMPOSITE \cup LDM_GPU_TYPE_SLI,
   LDM_GPU_TYPE_COMPOSITE \cup LDM_GPU_TYPE_CROSSFIRE,
   LDM_GPU_TYPE_HYBRID \cup LDM_GPU_TYPE_COMPOSITE}

\* ------------------------------------------------------------------------
\* State

VARIABLES
  devices,   \* the device array the manager returns
  alive,     \* TRUE once ldm_gpu_config_new has built the object
  self,      \* the fields of the LdmGPUConfig object
  ret,       \* the last call: [op, handle, mask, val, reads]
  pc         \* "ready", or "crashed" after a fault

vars == <<devices, alive, self, ret, pc>>

NoCall == [op |-> "none", handle |-> "NULL", mask |-> {}, val |-> NULL, reads |-> {}]

Call(op, h, mask, a) ==
  [op |-> op, handle |-> h, mask |-> mask, val |-> a.val, reads |-> a.reads]

Init ==
  /\ devices \in DeviceSeqs
  /\ alive = FALSE
  /\ self = ldm_gpu_config_init
  /\ ret = NoCall
  /\ pc = "ready"

\* The handles a caller can pass: NULL, or the object once it exists.
Usable == IF alive THEN Handles ELSE {"NULL"}

\* ldm_gpu_config_new: init, then constructed runs the analysis.
New ==
  /\ pc = "ready"
  /\ ~alive
  /\ alive' = TRUE
  /\ self' = ldm_gpu_config_analyze(ldm_gpu_config_init, devices)
  /\ ret' = [NoCall EXCEPT !.op = "new", !.handle = "self"]
  /\ UNCHANGED <<devices, pc>>

Count ==
  /\ pc = "ready"
  /\ \E h \in Usable : ret' = Call("count", h, {}, ldm_gpu_config_count(h, self))
  /\ UNCHANGED <<devices, alive, self, pc>>

GetGpuType ==
  /\ pc = "ready"
  /\ \E h \in Usable : ret' = Call("gpu_type", h, {}, ldm_gpu_config_get_gpu_type(h, self))
  /\ UNCHANGED <<devices, alive, self, pc>>

HasType ==
  /\ pc = "ready"
  /\ \E h \in Usable, mask \in Masks :
       ret' = Call("has_type", h, mask, ldm_gpu_config_has_type(h, self, mask))
  /\ UNCHANGED <<devices, alive, self, pc>>

GetPrimaryDevice ==
  /\ pc = "ready"
  /\ \E h \in Usable :
       ret' = Call("primary", h, {}, ldm_gpu_config_get_primary_device(h, self))
  /\ UNCHANGED <<devices, alive, self, pc>>

GetSecondaryDevice ==
  /\ pc = "ready"
  /\ \E h \in Usable :
       ret' = Call("secondary", h, {}, ldm_gpu_config_get_secondary_device(h, self))
  /\ UNCHANGED <<devices, alive, self, pc>>

\* A call that dereferences NULL is undefined: the process faults, or the
\* read yields some pointer value and the call returns it.
GetDetectionDevice ==
  /\ pc = "ready"
  /\ \E h \in Usable :
       LET a == ldm_gpu_config_get_detection_device(h, self) IN
       IF a.ub
         THEN \/ /\ pc' = "crashed"
                 /\ ret' = Call("detection", h, {}, a)
              \/ /\ pc' = pc
                 /\ \E v \in {NULL} \cup Range(devices) :
                      ret' = Call("detection", h, {}, [a EXCEPT !.val = v])
         ELSE /\ pc' = pc
              /\ ret' = Call("detection", h, {}, a)
  /\ UNCHANGED <<devices, alive, self>>

GetProviders ==
  /\ pc = "ready"
  /\ \E h \in Usable :
       ret' = Call("providers", h, {}, ldm_gpu_config_get_providers(h, self))
  /\ UNCHANGED <<devices, alive, self, pc>>

Next ==
  \/ New
  \/ Count
  \/ GetGpuType
  \/ HasType
  \/ GetPrimaryDevice
  \/ GetSecondaryDevice
  \/ GetDetectionDevice
  \/ GetProviders

Spec == Init /\ [][Next]_vars

\* ------------------------------------------------------------------------
\* Properties

HasBoot(d) == d # NULL /\ d.boot

VendorOf(d) == IF d = NULL THEN VENDOR_NONE ELSE d.vendor

\* The boot device of a non-empty sequence: the first device carrying
\* boot-VGA, devs[1] if none does.
BootOf(devs) ==
  IF \E i \in 1..Len(devs) : devs[i].boot
    THEN devs[CHOOSE i \in 1..Len(devs) :
                devs[i].boot /\ \A j \in 1..(i - 1) : ~devs[j].boot]
    ELSE devs[1]

\* The non-boot device: the first device other than the boot device that
\* lacks boot-VGA, NULL if there is none.
NonBootOf(devs) ==
  LET cand == {i \in 1..Len(devs) : devs[i] # BootOf(devs) /\ ~devs[i].boot}
  IN  IF cand = {} THEN NULL
      ELSE devs[CHOOSE i \in cand : \A j \in cand : i <= j]

\* The first-match cascade on the pair (b, n).
Cascade(b, n) ==
  IF HasBoot(b) /\ ~HasBoot(n) /\ VendorOf(b) = "INTEL" /\ VendorOf(n) = "NVIDIA"
    THEN [gpu_type |-> {"HYBRID", "OPTIMUS"}, primary |-> b, secondary |-> n]
  ELSE IF HasBoot(b) /\ ~HasBoot(n) /\ VendorOf(b) \in {"INTEL", "AMD"} /\ VendorOf(n) = "AMD"
    THEN [gpu_type |-> {"HYBRID"}, primary |-> b, secondary |-> n]
  ELSE IF VendorOf(b) = VendorOf(n) /\ VendorOf(b) = "AMD"
    THEN [gpu_type |-> {"COMPOSITE", "CROSSFIRE"}, primary |-> b, secondary |-> NULL]
  ELSE IF VendorOf(b) = VendorOf(n) /\ VendorOf(b) = "NVIDIA"
    THEN [gpu_type |-> {"COMPOSITE", "SLI"}, primary |-> b, secondary |-> NULL]
  ELSE [gpu_type |-> {}, primary |-> b, secondary |-> NULL]

\* C1: for every device sequence of length >= 2 the configuration built by
\* the analysis is what the first-match cascade (Optimus, AMD hybrid,
\* composite, simple) gives on the pair (boot device, non-boot device).
C1_ClassifyIsCascade ==
  (alive /\ Len(devices) >= 2) =>
    LET e == Cascade(BootOf(devices), NonBootOf(devices)) IN
      /\ self.gpu_type = e.gpu_type
      /\ self.primary = e.primary
      /\ self.secondary = e.secondary

\* C1 witness: three devices, none boot-VGA first, classified as Optimus
\* through a boot device that is not devices[1].
C1_Witness ==
  /\ alive
  /\ Len(devices) = 3
  /\ ~devices[1].boot
  /\ BootOf(devices) # devices[1]
  /\ self.gpu_type = {"HYBRID", "OPTIMUS"}

\* Two devices, both AMD, exactly one of them carrying boot-VGA.
AmdBootPair ==
  /\ Len(devices) = 2
  /\ devices[1].vendor = "AMD"
  /\ devices[2].vendor = "AMD"
  /\ devices[1].boot # devices[2].boot

\* C2 as stated: an AMD boot-VGA device with an AMD device lacking boot-VGA
\* is classified COMPOSITE|CROSSFIRE, HYBRID bit clear.
C2_AmdBootPairIsCrossfire ==
  (alive /\ AmdBootPair) => self.gpu_type = {"COMPOSITE", "CROSSFIRE"}

\* C2 amended: an AMD boot-VGA device with an AMD device lacking boot-VGA is
\* classified HYBRID (COMPOSITE and CROSSFIRE bits clear), primary the boot
\* device and secondary the other one.
C2_AmdBootPairIsHybrid ==
  (alive /\ AmdBootPair) =>
    /\ self.gpu_type = {"HYBRID"}
    /\ self.primary = BootOf(devices)
    /\ self.secondary = NonBootOf(devices)
    /\ self.secondary # NULL

\* C2 witness: the AMD pair has been classified, boot device second.
C2_Witness ==
  alive /\ AmdBootPair /\ devices[2].boot

\* The safe default of each accessor.
SafeDefault(op) ==
  CASE op = "count" -> 0
    [] op = "gpu_type" -> {}
    [] op = "has_type" -> FALSE
    [] OTHER -> NULL

\* C3: every accessor called on a NULL configuration returns its safe
\* default, reads no field of the configuration and does not fault.
C3_NullHandleIsSafe ==
  (ret.op # "none" /\ ret.handle = "NULL") =>
    /\ pc = "ready"
    /\ ret.reads = {}
    /\ ret.val = SafeDefault(ret.op)

\* C4: when every device of a sequence of length >= 2 carries boot-VGA, no
\* rule matches whatever the vendors and the result is SIMPLE with primary
\* devices[1] and no secondary.
C4_AllBootIsSimple ==
  (alive /\ Len(devices) >= 2 /\ \A i \in 1..Len(devices) : devices[i].boot) =>
    /\ self.gpu_type = {}
    /\ self.primary = devices[1]
    /\ self.secondary = NULL

\* C4 witness: two NVIDIA devices, both boot-VGA, have been classified.
C4_Witness ==
  /\ alive
  /\ Len(devices) = 2
  /\ \A i \in 1..2 : devices[i].boot /\ devices[i].vendor = "NVIDIA"

\* C5: the detection device of a built configuration is its secondary
\* device when the HYBRID bit is set and its primary device otherwise.
C5_DetectionDevice ==
  (ret.op = "detection" /\ ret.handle = "self") =>
    /\ pc = "ready"
    /\ ret.val = IF "HYBRID" \in self.gpu_type THEN self.secondary ELSE self.primary

\* C5 witness: the detection device of a HYBRID (not OPTIMUS) configuration
\* was asked for and it is the secondary device.
C5_Witness ==
  /\ ret.op = "detection"
  /\ ret.handle = "self"
  /\ self.gpu_type = {"HYBRID"}
  /\ ret.val = self.secondary
  /\ ret.val # self.primary

\* C6: in every configuration OPTIMUS implies HYBRID, and SLI or CROSSFIRE
\* implies COMPOSITE.
C6_BitImplications ==
  /\ "OPTIMUS" \in self.gpu_type => "HYBRID" \in self.gpu_type
  /\ "SLI" \in self.gpu_type => "COMPOSITE" \in self.gpu_type
  /\ "CROSSFIRE" \in self.gpu_type => "COMPOSITE" \in self.gpu_type

\* C6 witness: an Optimus configuration has been built.
C6_Witness ==
  alive /\ "OPTIMUS" \in self.gpu_type

\* C7: the device count is the length of the input; it is 0 exactly when
\* primary is NULL and the type is SIMPLE; with at most one device the type
\* is SIMPLE and secondary is NULL, and a single device is the primary.
C7_CountInvariants ==
  alive =>
    /\ self.n_gpu = Len(devices)
    /\ (self.n_gpu = 0) <=> (self.primary = NULL /\ self.gpu_type = {})
    /\ self.n_gpu <= 1 => (self.gpu_type = {} /\ self.secondary = NULL)
    /\ self.n_gpu = 1 => self.primary = devices[1]

\* C7 witness: a single NVIDIA device without boot-VGA has been classified.
C7_Witness ==
  /\ alive
  /\ Len(devices) = 1
  /\ devices[1].vendor = "NVIDIA"
  /\ ~devices[1].boot
  /\ self.n_gpu = 1

\* The sequences of distinct device objects, of length 2..MaxDevices, over
\* the objects of devs and the objects the manager did not return.
OtherSeqs(devs) ==
  LET fresh == (Len(devs) + 1)..MaxDevices
      ids == UNION {{q \in [1..n -> 1..MaxDevices] :
                       \A i, j \in 1..n : i # j => q[i] # q[j]} : n \in 2..MaxDevices}
  IN  UNION {
        {[k \in 1..Len(q) |->
            IF q[k] <= Len(devs) THEN devs[q[k]]
            ELSE [id |-> q[k], vendor |-> v[q[k]], boot |-> b[q[k]]]] : q \in ids} :
        v \in [fresh -> Vendors], b \in [fresh -> BOOLEAN]}

\* C8: two sequences of length >= 2 that select the same boot device and
\* the same non-boot device get the same type, primary and secondary; the
\* other devices show in the count only.
C8_OnlyRepresentativesMatter ==
  (alive /\ ret.op = "new" /\ Len(devices) >= 2) =>
    \A t \in OtherSeqs(devices) :
      (BootOf(t) = BootOf(devices) /\ NonBootOf(t) = NonBootOf(devices)) =>
        LET c == ldm_gpu_config_analyze(ldm_gpu_config_init, t) IN
          /\ c.gpu_type = self.gpu_type
          /\ c.primary = self.primary
          /\ c.secondary = self.secondary
          /\ c.n_gpu = Len(t)

\* C8 witness: a three-device sequence has been classified, and a shorter
\* one that drops its third device selects the same boot and non-boot
\* device.
C8_Witness ==
  /\ alive
  /\ ret.op = "new"
  /\ Len(devices) = 3
  /\ devices[3].vendor = "AMD"
  /\ ~devices[3].boot
  /\ \E t \in OtherSeqs(devices) :
       /\ Len(t) = 2
       /\ BootOf(t) = BootOf(devices)
       /\ NonBootOf(t) = NonBootOf(devices)
       /\ NonBootOf(t) # NULL

\* C9: secondary is set exactly when the HYBRID bit is; it is then a device
\* of the input other than primary, primary carries boot-VGA and secondary
\* does not; and with at least one device the detection device is a device
\* of the input.
C9_SecondaryIffHybrid ==
  alive =>
    /\ (self.secondary # NULL) <=> ("HYBRID" \in self.gpu_type)
    /\ "HYBRID" \in self.gpu_type =>
         /\ self.secondary \in Range(devices)
         /\ self.secondary # self.primary
         /\ HasBoot(self.primary)
         /\ ~HasBoot(self.secondary)
    /\ self.n_gpu >= 1 =>
         ldm_gpu_config_get_detection_device("self", self).val \in Range(devices)

\* C9 witness: an AMD hybrid configuration with an AMD primary.
C9_Witness ==
  /\ alive
  /\ self.gpu_type = {"HYBRID"}
  /\ self.primary # NULL
  /\ self.primary.vendor = "AMD"
  /\ self.secondary # NULL

\* C10: the CROSSFIRE bit is set only when no device of the input carries
\* boot-VGA and the boot and non-boot device are both AMD.
C10_CrossfireOnlyWithoutBootVga ==
  (alive /\ "CROSSFIRE" \in self.gpu_type) =>
    /\ \A i \in 1..Len(devices) : ~devices[i].boot
    /\ Len(devices) >= 2
    /\ VendorOf(BootOf(devices)) = "AMD"
    /\ VendorOf(NonBootOf(devices)) = "AMD"

\* C10 witness: a CROSSFIRE configuration has been built.
C10_Witness ==
  alive /\ "CROSSFIRE" \in self.gpu_type /\ Len(devices) = 3

====
